---- MODULE Spec2Model ----
(***************************************************************************)
(* Sidecar process supervisor of the desktop shell                         *)
(* (frontend/src-tauri/src/main.rs).                                       *)
(*                                                                         *)
(* State: the BackendProcesses store (core: Mutex<Option<CommandChild>>),  *)
(* the tauri commands running as concurrent tasks, the production          *)
(* auto-start task, the window-close handler and the child processes.      *)
(***************************************************************************)
EXTENDS Integers, FiniteSets, Sequences, TLC

\* ---------------------------------------------------------------- bounds
MaxSpawns == 2          \* child processes ever spawned in one behaviour
NumCallers == 2         \* command invocations that can be in flight at once
MaxProbes == 1          \* check_*_health requests that can be in flight at once

Callers == 1..NumCallers
Pids == 1..MaxSpawns

\* ------------------------------------------------------------- constants
NoHandle == 0           \* Option::None in the store
NoTask == 0             \* the mutex is not held
NotObserved == -1       \* the invocation has not read the store

\* Return values of the commands (the strings of the source).
AlreadyRunning == "Core backend already running"
Started == "Core backend started"
Stopped == "Backends stopped"
AuthCloudHosted == "Auth backend is cloud-hosted at Render"
ErrLock == "poisoned lock: another task failed inside"
ErrSidecar == "Failed to create sidecar command"
ErrSpawn == "Failed to start core backend"
NoReturn == "none"
Panicked == "panicked"
AutoStored == "auto-start stored the handle"
Closed == "close handler ran"

Errors == {ErrLock, ErrSidecar, ErrSpawn}

\* Return values of check_core_health / check_auth_health.
OkTrue == "Ok(true)"
OkFalse == "Ok(false)"

\* The managed services and the health command of each.
Services == {"core", "auth"}

HealthOp(svc) == IF svc = "core" THEN "check_core" ELSE "check_auth"

HealthOps == {HealthOp(svc) : svc \in Services}

\* What reqwest::get(url).await yields: a response with a status code, or an
\* error (connection refused, timed out at the OS level, DNS failure).
NoResponse == [kind |-> "none", code |-> 0]

Responses ==
    {[kind |-> "status", code |-> k] : k \in {199, 200, 299, 300, 500}}
    \cup {[kind |-> e, code |-> 0] : e \in {"refused", "timeout", "dns"}}

\* Outcomes of Command::new_sidecar(..)?.spawn()
LaunchOutcomes == {"ok", "no_sidecar", "spawn_failed"}

VARIABLES
    core,        \* BackendProcesses.core: NoHandle or the pid of the stored child
    lockHolder,  \* the task holding the guard of BackendProcesses.core
    poisoned,    \* the mutex is poisoned (a task panicked holding the guard)
    pc,          \* position of each command task
    call,        \* the invocation each command task is running
    last,        \* history: the invocation that returned most recently
    spawned,     \* child processes created so far
    signalled,   \* child processes on which kill() was called
    dead,        \* child processes that exited on their own
    autoPc,      \* position of the auto-start task
    autoChild,   \* child spawned by the auto-start task
    shell,       \* "running", "closing" (CloseRequested delivered), "closed"
                 \* (close handler has run), "exited"
    epochSpawns, \* history: children spawned by start_core_backend since the last take
    startedPid   \* history: child of the most recent successful start_core_backend

vars == <<core, lockHolder, poisoned, pc, call, last, spawned, signalled, dead,
          autoPc, autoChild, shell, epochSpawns, startedPid>>

\* An operation on the store: the command (or "auto_store", "close"), the store
\* content it read under the lock, the child it spawned, the child it
\* signalled, its return value, the store content it left, (prev) the
\* return value of the operation that completed just before it, and (resp)
\* what its health request yielded.
NoCall == [op |-> "none", seen |-> NotObserved, child |-> NoHandle,
           killed |-> NoHandle, ret |-> NoReturn, after |-> NotObserved,
           prev |-> NoReturn, resp |-> NoResponse]

NewCall(o) == [NoCall EXCEPT !.op = o]

Init ==
    /\ core = NoHandle
    /\ lockHolder = NoTask
    /\ poisoned = FALSE
    /\ pc = [c \in Callers |-> "idle"]
    /\ call = [c \in Callers |-> NoCall]
    /\ last = NoCall
    /\ spawned = {}
    /\ signalled = {}
    /\ dead = {}
    /\ autoPc = "sleep"
    /\ autoChild = NoHandle
    /\ shell = "running"
    /\ epochSpawns = 0
    /\ startedPid = NoHandle

\* ------------------------------------------------- pieces of the code
\* state.core.lock(): blocks while another task holds the guard.
CanLock_NoMutex == TRUE

CanLock == lockHolder = NoTask

\* Dropping the guard.
Unlock(c) == IF lockHolder = c THEN NoTask ELSE lockHolder

\* core_guard.is_some()
IsSome_Never(h) == FALSE

IsSome(h) == h # NoHandle

\* Command::new_sidecar(..)?.spawn(): a child process exists only on Ok.
SpawnsChild_OnSpawnError(out) == out \in {"ok", "spawn_failed"}

SpawnsChild(out) == out = "ok"

\* The Err(..) start_core_backend returns when the launch fails.
LaunchError(out) == IF out = "no_sidecar" THEN ErrSidecar ELSE ErrSpawn

\* child.kill(): fails on a child that has already exited.
KillOk(p) == p \notin dead

\* stop_backends: `let _ = child.kill();` then Ok("Backends stopped").
StopReturn_PropagateKill(h, killOk) == IF IsSome(h) /\ ~killOk THEN "Failed to kill" ELSE Stopped

StopReturn_ErrWhenEmpty(h, killOk) == IF IsSome(h) THEN Stopped ELSE "No backend running"

StopReturn(h, killOk) == Stopped

\* *core_guard = Some(child): what the store holds after the assignment.
StoredHandle_Dropped(child) == NoHandle

StoredHandle(child) == child

\* core_guard.take() / core.take(): what the store holds afterwards.
AfterTake_Keeps == core

AfterTake == NoHandle

\* The pid of the next child process.
NewPid == Cardinality(spawned) + 1

CanSpawn == NewPid <= MaxSpawns

Running == shell # "exited"

\* What an operation keeps of the one before it: the return value of a start
\* or stop command, nothing of the other operations.
PrevOf(rec) ==
    IF rec.op \in {"start_core", "stop", "start_auth"} THEN rec.ret ELSE NoReturn

\* An operation completes: it becomes the last completed one.
Completed(rec) == last' = [rec EXCEPT !.prev = PrevOf(last)]

\* Task c returns.
Return(c, rec) ==
    /\ pc' = [pc EXCEPT ![c] = "idle"]
    /\ call' = [call EXCEPT ![c] = NoCall]
    /\ Completed(rec)

\* lock() on a poisoned mutex: the command returns Err at once.
LockFails(c, o) ==
    /\ poisoned
    /\ Return(c, [NewCall(o) EXCEPT !.ret = ErrLock])
    /\ UNCHANGED lockHolder

\* lock() succeeds: task c holds the guard.
LockTaken(c, o, next) ==
    /\ ~poisoned
    /\ pc' = [pc EXCEPT ![c] = next]
    /\ call' = [call EXCEPT ![c] = NewCall(o)]
    /\ lockHolder' = c
    /\ UNCHANGED last

\* response.status().is_success()
IsSuccess_OnlyOk(code) == code = 200

IsSuccess(code) == code >= 200 /\ code <= 299

\* Ok(response) => response.status().is_success(), Err(_) => false
HealthResult(resp) == IF resp.kind = "status" THEN IsSuccess(resp.code) ELSE FALSE

\* check_core_health / check_auth_health take no lock and read no state.
HealthCanStart_TakesLock == CanLock

HealthCanStart == TRUE

\* check_*_health requests in flight.
Probing == {c \in Callers : pc[c] = "health_probe"}

\* ---------------------------------------------------- start_core_backend
\* line 26: lock, or Err on a poisoned mutex.
StartLock(c) ==
    /\ Running /\ pc[c] = "idle" /\ CanLock
    /\ \/ LockFails(c, "start_core")
       \/ LockTaken(c, "start_core", "start_locked")
    /\ UNCHANGED <<core, poisoned, spawned, signalled, dead, autoPc, autoChild,
                   shell, epochSpawns, startedPid>>

\* lines 28-30: a handle is stored: return "already running".
StartCheck(c) ==
    /\ Running /\ pc[c] = "start_locked"
    /\ IF IsSome(core)
       THEN /\ Return(c, [call[c] EXCEPT !.seen = core, !.ret = AlreadyRunning, !.after = core])
            /\ lockHolder' = Unlock(c)
       ELSE /\ pc' = [pc EXCEPT ![c] = "start_launch"]
            /\ call' = [call EXCEPT ![c].seen = core]
            /\ UNCHANGED <<lockHolder, last>>
    /\ UNCHANGED <<core, poisoned, spawned, signalled, dead, autoPc, autoChild,
                   shell, epochSpawns, startedPid>>

\* lines 33-35 and 42-44: the launch; on failure the error is returned.
StartLaunch(c) ==
    /\ Running /\ pc[c] = "start_launch"
    /\ \E out \in LaunchOutcomes :
         LET child == IF SpawnsChild(out) THEN NewPid ELSE NoHandle IN
         /\ SpawnsChild(out) => CanSpawn
         /\ spawned' = IF SpawnsChild(out) THEN spawned \cup {NewPid} ELSE spawned
         /\ epochSpawns' = IF SpawnsChild(out) THEN epochSpawns + 1 ELSE epochSpawns
         /\ IF out = "ok"
            THEN /\ pc' = [pc EXCEPT ![c] = "start_store"]
                 /\ call' = [call EXCEPT ![c].child = child]
                 /\ UNCHANGED <<lockHolder, last>>
            ELSE /\ Return(c, [call[c] EXCEPT !.child = child, !.ret = LaunchError(out),
                                             !.after = core])
                 /\ lockHolder' = Unlock(c)
    /\ UNCHANGED <<core, poisoned, signalled, dead, autoPc, autoChild,
                   shell, startedPid>>

\* lines 38-41: store the handle, return Ok.
StartStore(c) ==
    /\ Running /\ pc[c] = "start_store"
    /\ core' = StoredHandle(call[c].child)
    /\ startedPid' = call[c].child
    /\ Return(c, [call[c] EXCEPT !.ret = Started, !.after = StoredHandle(call[c].child)])
    /\ lockHolder' = Unlock(c)
    /\ UNCHANGED <<poisoned, spawned, signalled, dead, autoPc, autoChild,
                   shell, epochSpawns>>

\* --------------------------------------------------------- stop_backends
\* line 51: lock, or Err on a poisoned mutex.
StopLock(c) ==
    /\ Running /\ pc[c] = "idle" /\ CanLock
    /\ \/ LockFails(c, "stop")
       \/ LockTaken(c, "stop", "stop_locked")
    /\ UNCHANGED <<core, poisoned, spawned, signalled, dead, autoPc, autoChild,
                   shell, epochSpawns, startedPid>>

\* lines 53-57: take the handle, kill the child (result discarded), return Ok.
StopTake(c) ==
    /\ Running /\ pc[c] = "stop_locked"
    /\ core' = AfterTake
    /\ signalled' = IF IsSome(core) THEN signalled \cup {core} ELSE signalled
    /\ Return(c, [call[c] EXCEPT !.seen = core, !.killed = core,
                                 !.ret = StopReturn(core, KillOk(core)),
                                 !.after = AfterTake])
    /\ lockHolder' = Unlock(c)
    /\ epochSpawns' = 0
    /\ UNCHANGED <<poisoned, spawned, dead, autoPc, autoChild, shell, startedPid>>

\* ---------------------------------------------------- start_auth_backend
\* lines 88-92: a no-op, the auth backend is cloud-hosted.
StartAuth(c) ==
    /\ Running /\ pc[c] = "idle"
    /\ Return(c, [NewCall("start_auth") EXCEPT !.ret = AuthCloudHosted])
    /\ UNCHANGED <<core, lockHolder, poisoned, spawned, signalled, dead,
                   autoPc, autoChild, shell, epochSpawns, startedPid>>

\* ------------------------------------ check_core_health, check_auth_health
\* lines 62-64, 73-75: build the url and send the request with reqwest::get;
\* no timeout is set, the task waits until the endpoint answers or the
\* request fails.
HealthSend(c, svc) ==
    /\ Running /\ pc[c] = "idle" /\ HealthCanStart
    /\ Cardinality(Probing) < MaxProbes
    /\ pc' = [pc EXCEPT ![c] = "health_probe"]
    /\ call' = [call EXCEPT ![c] = NewCall(HealthOp(svc))]
    /\ UNCHANGED <<core, lockHolder, poisoned, last, spawned, signalled, dead,
                   autoPc, autoChild, shell, epochSpawns, startedPid>>

\* lines 65-68, 76-79: Ok(is_success) on a response, Ok(false) on an error.
HealthReturn(c) ==
    /\ Running /\ pc[c] = "health_probe"
    /\ \E resp \in Responses :
         last' = [call[c] EXCEPT !.resp = resp,
                                 !.ret = IF HealthResult(resp) THEN OkTrue ELSE OkFalse]
    /\ pc' = [pc EXCEPT ![c] = "idle"]
    /\ call' = [call EXCEPT ![c] = NoCall]
    /\ UNCHANGED <<core, lockHolder, poisoned, spawned, signalled, dead,
                   autoPc, autoChild, shell, epochSpawns, startedPid>>

\* ---------------------------------------------------- get_sidecar_status
\* lines 156-160: the status string, as its two parts.
StatusString(running, healthy) ==
    <<IF running THEN "running" ELSE "not running", IF healthy THEN "ok" ELSE "failed">>

\* line 147: lock, or Err on a poisoned mutex; the guard stays held.
StatusLock(c) ==
    /\ Running /\ pc[c] = "idle" /\ CanLock
    /\ \/ LockFails(c, "status")
       \/ LockTaken(c, "status", "status_probe")
    /\ UNCHANGED <<core, poisoned, spawned, signalled, dead, autoPc, autoChild,
                   shell, epochSpawns, startedPid>>

\* lines 148-160: is_some(), the request (no timeout is set) is answered or
\* fails; the guard is dropped on return.
StatusProbe(c) ==
    /\ Running /\ pc[c] = "status_probe"
    /\ \E healthy \in BOOLEAN :
         Return(c, [call[c] EXCEPT !.seen = core, !.after = core,
                                   !.ret = StatusString(IsSome(core), healthy)])
    /\ lockHolder' = Unlock(c)
    /\ UNCHANGED <<core, poisoned, spawned, signalled, dead, autoPc, autoChild,
                   shell, epochSpawns, startedPid>>

\* lines 147-154: the task panics inside the request while it holds the guard;
\* unwinding drops the guard and poisons the mutex.
StatusPanic(c) ==
    /\ Running /\ pc[c] = "status_probe"
    /\ poisoned' = TRUE
    /\ Return(c, [call[c] EXCEPT !.ret = Panicked])
    /\ lockHolder' = Unlock(c)
    /\ UNCHANGED <<core, spawned, signalled, dead, autoPc, autoChild,
                   shell, epochSpawns, startedPid>>

\* ------------------------------------------- start_sidecar_backends (auto)
\* lines 193-198, 232-237, 252-255: after the initial sleep, spawn the sidecar
\* (no lock is taken, the store is not read).
AutoLaunch ==
    /\ Running /\ autoPc = "sleep"
    /\ \E out \in LaunchOutcomes :
         IF SpawnsChild(out)
         THEN /\ CanSpawn
              /\ spawned' = spawned \cup {NewPid}
              /\ autoChild' = NewPid
              /\ autoPc' = "spawned"
         ELSE /\ autoPc' = "done"
              /\ UNCHANGED <<spawned, autoChild>>
    /\ UNCHANGED <<core, lockHolder, poisoned, pc, call, last, signalled, dead,
                   shell, epochSpawns, startedPid>>

\* lines 242-250: lock and overwrite the store; a poisoned lock is only logged.
AutoStore ==
    /\ Running /\ autoPc = "spawned" /\ CanLock
    /\ core' = IF poisoned THEN core ELSE StoredHandle(autoChild)
    /\ Completed([NewCall("auto_store") EXCEPT
                    !.child = autoChild,
                    !.ret = IF poisoned THEN ErrLock ELSE AutoStored,
                    !.after = IF poisoned THEN NotObserved ELSE StoredHandle(autoChild)])
    /\ autoPc' = "settle"
    /\ UNCHANGED <<lockHolder, poisoned, pc, call, spawned, signalled, dead,
                   autoChild, shell, epochSpawns, startedPid>>

\* lines 259-263: settling delay, then the health request is sent.
AutoSend ==
    /\ Running /\ autoPc = "settle"
    /\ autoPc' = "probe"
    /\ UNCHANGED <<core, lockHolder, poisoned, pc, call, last, spawned, signalled,
                   dead, autoChild, shell, epochSpawns, startedPid>>

\* lines 263-275: the request (no timeout is set) is answered or fails; log,
\* Ok(()).
AutoProbe ==
    /\ Running /\ autoPc = "probe"
    /\ autoPc' = "done"
    /\ UNCHANGED <<core, lockHolder, poisoned, pc, call, last, spawned, signalled,
                   dead, autoChild, shell, epochSpawns, startedPid>>

\* ----------------------------------------------- window close and exit
\* lines 206-208: the window's CloseRequested event reaches the handler, which
\* calls lock() (and waits for the guard).
CloseRequest ==
    /\ shell = "running"
    /\ shell' = "closing"
    /\ UNCHANGED <<core, lockHolder, poisoned, pc, call, last, spawned, signalled,
                   dead, autoPc, autoChild, epochSpawns, startedPid>>

\* lines 211-218: with the guard, take the handle and kill the child; a
\* poisoned lock is ignored.
CloseHandler ==
    /\ shell = "closing" /\ CanLock
    /\ IF poisoned
       THEN /\ Completed([NewCall("close") EXCEPT !.ret = ErrLock])
            /\ UNCHANGED <<core, signalled, epochSpawns>>
       ELSE /\ core' = AfterTake
            /\ signalled' = IF IsSome(core) THEN signalled \cup {core} ELSE signalled
            /\ Completed([NewCall("close") EXCEPT !.seen = core, !.killed = core,
                                                  !.ret = Closed, !.after = AfterTake])
            /\ epochSpawns' = 0
    /\ shell' = "closed"
    /\ UNCHANGED <<lockHolder, poisoned, pc, call, spawned, dead, autoPc,
                   autoChild, startedPid>>

\* lines 221-222: run() returns once the window is closed; the shell exits and
\* its tasks end with it.
Exit ==
    /\ shell = "closed"
    /\ shell' = "exited"
    /\ pc' = [c \in Callers |-> "idle"]
    /\ call' = [c \in Callers |-> NoCall]
    /\ last' = NoCall
    /\ lockHolder' = NoTask
    /\ UNCHANGED <<core, poisoned, spawned, signalled, dead, autoPc, autoChild,
                   epochSpawns, startedPid>>

\* ------------------------------------------------------- the environment
\* A child process exits on its own; nothing in the shell observes it.
ChildExit(p) ==
    /\ Running /\ p \in spawned /\ p \notin dead /\ p \notin signalled
    /\ dead' = dead \cup {p}
    /\ UNCHANGED <<core, lockHolder, poisoned, pc, call, last, spawned, signalled,
                   autoPc, autoChild, shell, epochSpawns, startedPid>>

Next ==
    \/ \E c \in Callers : StartLock(c)
    \/ \E c \in Callers : StartCheck(c)
    \/ \E c \in Callers : StartLaunch(c)
    \/ \E c \in Callers : StartStore(c)
    \/ \E c \in Callers : StopLock(c)
    \/ \E c \in Callers : StopTake(c)
    \/ \E c \in Callers : StartAuth(c)
    \/ \E c \in Callers : StatusLock(c)
    \/ \E c \in Callers : StatusProbe(c)
    \/ \E c \in Callers : StatusPanic(c)
    \/ AutoLaunch
    \/ AutoStore
    \/ AutoSend
    \/ AutoProbe
    \/ \E c \in Callers : \E svc \in Services : HealthSend(c, svc)
    \/ \E c \in Callers : HealthReturn(c)
    \/ CloseRequest
    \/ CloseHandler
    \/ Exit
    \/ \E p \in Pids : ChildExit(p)

Spec == Init /\ [][Next]_vars

\* Scheduling: the runtime keeps running every task that can take its next
\* step, and a task waiting for the guard gets it if it is free again and
\* again. Invoking a command, closing the window, a panic and a child's exit
\* are the environment's choice. So is the end of a request: the code sets no
\* timeout, nothing but the endpoint ends it.
TaskStep(c) ==
    StartCheck(c) \/ StartLaunch(c) \/ StartStore(c) \/ StopTake(c)

Fairness ==
    /\ \A c \in Callers : WF_vars(TaskStep(c))
    /\ WF_vars(AutoLaunch)
    /\ SF_vars(AutoStore)
    /\ WF_vars(AutoSend)
    /\ SF_vars(CloseHandler)
    /\ WF_vars(Exit)

FairSpec == Spec /\ Fairness

\* =================================================================
\* Properties
\* =================================================================

\* Child processes that exist and have not been sent a kill signal.
Unsignalled == (spawned \ signalled) \ dead

LaunchErrors == {ErrSidecar, ErrSpawn}

\* C1: in every reachable state at most one core child process exists that
\* has been spawned and not yet sent a kill signal, and the store holds no
\* handle or the handle of one spawned child.
C1_AtMostOneLiveCore ==
    /\ Cardinality(Unsignalled) <= 1
    /\ core \in {NoHandle} \cup spawned

\* C2: once the close handler has run and the shell has exited, every child
\* process spawned during the shell's lifetime has been sent a kill signal
\* (a child that exited on its own needs none).
C2_NoOrphansAfterExit ==
    shell = "exited" => Unsignalled = {}

\* C3 (as stated): between two takes, start_core_backend spawns at most one
\* child, and every invocation that did not spawn returns "already running".
C3_OthersAlreadyRunning ==
    /\ epochSpawns <= 1
    /\ (last.op = "start_core" /\ last.child = NoHandle) => last.ret = AlreadyRunning

\* C3 (amended): between two takes, start_core_backend spawns at most one
\* child; the invocation that spawned returns "started" having found the store
\* empty; every other invocation returns "already running" (it found a
\* handle) or an error: a launch error if it found the store empty and its
\* own launch failed, the lock error if the mutex is poisoned.
C3_AtMostOneSpawn ==
    /\ epochSpawns <= 1
    /\ last.op = "start_core" =>
         \/ /\ last.ret = Started
            /\ last.child # NoHandle /\ last.seen = NoHandle
         \/ /\ last.ret = AlreadyRunning
            /\ last.child = NoHandle /\ last.seen \notin {NoHandle, NotObserved}
         \/ /\ last.ret \in LaunchErrors
            /\ last.child = NoHandle /\ last.seen = NoHandle
         \/ /\ last.ret = ErrLock
            /\ last.child = NoHandle /\ last.seen = NotObserved /\ poisoned

\* C3 witness: one invocation has spawned since the last take and a later
\* invocation, with no stop in between, returned "already running".
C3_Witness ==
    /\ epochSpawns = 1
    /\ last.op = "start_core" /\ last.ret = AlreadyRunning
    /\ last.prev = Started

\* A stop executes: stop_backends takes, or the close handler runs.
StopStep ==
    \/ \E c \in Callers : pc[c] = "stop_locked" /\ pc'[c] = "idle" /\ shell' # "exited"
    \/ shell = "closing" /\ shell' = "closed"

\* A start has decided to spawn, or has spawned, and the handle is not yet in
\* the store.
SpawnPending ==
    \/ \E c \in Callers : pc[c] \in {"start_launch", "start_store"}
    \/ autoPc = "spawned"

\* C4: no stop (stop_backends or the close handler) executes between the
\* moment a start operation decides to spawn and the moment the handle of the
\* spawned process is written to the store.
C4_NoStopInsideStart == [][StopStep => ~SpawnPending]_vars

\* The start command of each ServiceId.
StartOps == {"start_core", "start_auth"}

\* C5 (as stated): for the core and the auth service, a start that directly
\* follows a successful start of the same service returns "already running"
\* without spawning, and the two calls spawned one process.
C5_SecondStartAlreadyRunning ==
    \A o \in StartOps :
        (last.op = o /\ last.prev = (IF o = "start_core" THEN Started ELSE AuthCloudHosted)) =>
            /\ last.ret = AlreadyRunning
            /\ last.child = NoHandle
            /\ epochSpawns = 1

\* C5 (amended): a start_core_backend that directly follows a successful
\* start_core_backend returns "already running" without spawning, the store
\* keeps the handle of the one process the first call spawned; a
\* start_auth_backend (first or repeated) spawns nothing, leaves the store
\* alone and returns the cloud-hosted status.
C5_StartTwice ==
    /\ (last.op = "start_core" /\ last.prev = Started) =>
          /\ last.ret = AlreadyRunning
          /\ last.child = NoHandle
          /\ last.seen = startedPid /\ last.after = startedPid
          /\ epochSpawns = 1
    /\ last.op = "start_auth" =>
          /\ last.ret = AuthCloudHosted
          /\ last.child = NoHandle /\ last.killed = NoHandle
          /\ last.seen = NotObserved

\* C5 witness: start_core_backend has returned "already running" right after
\* a start_core_backend that spawned.
C5_Witness ==
    /\ last.op = "start_core" /\ last.prev = Started
    /\ last.ret = AlreadyRunning /\ Cardinality(spawned) = 1

C9_StopAlwaysSucceeds ==
    last.op = "stop" => last.ret = Stopped

\* C9 (amended): stop_backends returns the success status whenever it
\* acquires the lock, with a handle or without, whether the kill signal
\* succeeds or fails; it returns an error only when the mutex is poisoned, and
\* then it has signalled nothing.
C9_StopSucceedsUnlessPoisoned ==
    last.op = "stop" =>
        \/ last.ret = Stopped /\ last.seen # NotObserved
        \/ /\ last.ret = ErrLock /\ poisoned
           /\ last.seen = NotObserved /\ last.killed = NoHandle

\* C9 witness: stop_backends returned success although the child it signalled
\* had already exited (the kill failed).
C9_Witness ==
    /\ last.op = "stop" /\ last.ret = Stopped
    /\ last.killed # NoHandle /\ last.killed \in dead

\* C10: a start_core_backend that finds no handle and whose launch fails
\* returns the launch error, has created no child process and leaves the
\* store empty; the start_core_backend that directly follows it attempts a
\* launch again (it does not return "already running").
C10_LaunchFailureLeavesNoState ==
    /\ (last.op = "start_core" /\ last.ret \in LaunchErrors) =>
          /\ last.seen = NoHandle
          /\ last.child = NoHandle
          /\ last.after = NoHandle
    /\ (last.op = "start_core" /\ last.prev \in LaunchErrors) =>
          /\ last.ret \in {Started} \cup LaunchErrors
          /\ last.seen = NoHandle

\* C10 witness: a launch failed and the start_core_backend right after it
\* spawned the first child.
C10_Witness ==
    /\ last.op = "start_core" /\ last.prev \in LaunchErrors
    /\ last.ret = Started /\ spawned = {last.child}

\* ---------------------------------------------------------------------
\* C11: when the store's lock is poisoned, every operation that touches the
\* store (start_core_backend, stop_backends, get_sidecar_status, the
\* auto-start task, the close handler) gives up without a crash: it has
\* spawned no process whose handle it cannot store, it has taken and killed
\* nothing and written nothing into the store.
C11_PoisonedLockHarmless ==
    last.ret = ErrLock =>
        /\ last.child = NoHandle
        /\ last.killed = NoHandle
        /\ last.seen = NotObserved /\ last.after = NotObserved

\* ---------------------------------------------------------------------
\* C12: check_core_health and check_auth_health return Ok(true) exactly when
\* a response arrived whose status code is a success code (200..299), and
\* Ok(false) for every other outcome; they never return an error.
C12_HealthTrueIffSuccess ==
    last.op \in HealthOps =>
        /\ last.ret \in {OkTrue, OkFalse}
        /\ last.ret = OkTrue <=>
               (last.resp.kind = "status" /\ last.resp.code \in 200..299)
        /\ last.ret = OkFalse <=>
               (last.resp.kind # "status" \/ last.resp.code \notin 200..299)

\* Witness: a health command answered a 299 response with Ok(true).
C12_Witness ==
    /\ last.op = "check_auth" /\ last.ret = OkTrue
    /\ last.resp = [kind |-> "status", code |-> 299]

\* ---------------------------------------------------------------------
\* C13: the health commands are independent of the store. Whatever the store
\* holds and whoever holds its lock, an idle caller can send the request of
\* either health command at once and the command can return on every
\* endpoint response; the command reads nothing of the store, and its steps
\* change neither the store, nor the lock, nor any child process.
HealthStep ==
    \E c \in Callers :
        /\ shell' # "exited"
        /\ \/ pc[c] = "idle" /\ pc'[c] = "health_probe"
           \/ pc[c] = "health_probe" /\ pc'[c] = "idle"

HealthNeverWaits ==
    \A c \in Callers :
        /\ (shell # "exited" /\ pc[c] = "idle"
               /\ Cardinality({d \in Callers : pc[d] = "health_probe"}) < MaxProbes) =>
              \A svc \in Services : ENABLED HealthSend(c, svc)
        /\ (shell # "exited" /\ pc[c] = "health_probe") =>
              \A resp \in Responses : ENABLED (HealthReturn(c) /\ last'.resp = resp)

C13_HealthIndependentOfStore ==
    /\ [](HealthNeverWaits /\ (last.op \in HealthOps => last.seen = NotObserved))
    /\ [][HealthStep => UNCHANGED <<core, lockHolder, poisoned, spawned,
                                     signalled, dead>>]_vars

\* Witness: a health command returned false while the store held a handle
\* and another task held the lock.
C13_Witness ==
    /\ last.op = "check_core" /\ last.ret = OkFalse
    /\ core # NoHandle /\ lockHolder # NoTask

\* ---------------------------------------------------------------------
\* C14: a health probe never blocks indefinitely: every request sent by
\* check_core_health, check_auth_health, get_sidecar_status and the
\* auto-start task is eventually over and the task goes on.
C14_ProbesReturn ==
    /\ \A c \in Callers :
          (pc[c] \in {"health_probe", "status_probe"}) ~> (pc[c] = "idle")
    /\ (autoPc = "probe") ~> (autoPc = "done")

\* ---------------------------------------------------------------------
\* C15: from the moment the window-close handler has finished until the
\* shell exits, the store holds no handle.
C15_NoHandleAfterClose ==
    shell = "closed" => core = NoHandle

\* ---------------------------------------------------------------------
\* C16: under fair scheduling every start_core_backend and stop_backends
\* that has the guard runs to completion, and the close handler, once the
\* window's close is requested, eventually completes.
C16_OperationsComplete ==
    /\ \A c \in Callers :
          (pc[c] \in {"start_locked", "start_launch", "start_store", "stop_locked"})
              ~> (pc[c] = "idle")
    /\ (shell = "closing") ~> (shell = "closed")

\* ---------------------------------------------------------------------
\* C17: a handle is written into the store only when the store is empty,
\* and a handle leaves the store only by being taken and sent a kill signal.
C17_NeverOverwritten ==
    [][core' # core =>
          \/ core = NoHandle
          \/ core' = NoHandle /\ core \in signalled']_vars

\* ---------------------------------------------------------------------
\* C18: the handle of a child that exited on its own stays in the store
\* until a stop_backends or the close handler takes it; a
\* start_core_backend that reads it returns "already running" without
\* spawning, a get_sidecar_status that reads it reports "running", and the
\* stop that takes it returns success.
C18_DeadHandleKept ==
    /\ [][(core \in dead /\ core' # core) =>
             /\ core' = NoHandle
             /\ last'.op \in {"stop", "close"} /\ last'.killed = core]_vars
    /\ []((last.op = "start_core" /\ last.seen \in dead) =>
             (last.ret = AlreadyRunning /\ last.child = NoHandle))
    /\ []((last.op = "status" /\ last.seen \in dead) => last.ret[1] = "running")
    /\ []((last.op = "stop" /\ last.killed \in dead) => last.ret = Stopped)

====
